---- MODULE Spec2Model ----
(***************************************************************************)
(* Model of training/loss.py: VGGPerceptualLoss.forward, Loss,             *)
(* StyleGAN2Loss.run_G, run_D and accumulate_gradients.                    *)
(*                                                                         *)
(* Tensors are records [src, v, rg]: src names where the tensor comes      *)
(* from ("img_s", "img_t" for the caller's real images, "G_synthesis" for  *)
(* a generated image), v is a one-pixel integer value, rg is the           *)
(* requires_grad flag.  The networks (ANet, G_mapping, G_synthesis, D,     *)
(* augment_pipe, the VGG blocks) are external collaborators; each is a     *)
(* fixed integer function, and every call to one is recorded as an event   *)
(* of the trace of the call, in program order.                             *)
(***************************************************************************)
EXTENDS Integers, Sequences, FiniteSets, TLC

\* r1_gamma, style_mixing_prob, augment_pipe: fields of the StyleGAN2Loss object
\* resize: field of the VGGPerceptualLoss object
\* args, gin, vin: the arguments (and random draws) of the call of
\*   accumulate_gradients, run_G and VGGPerceptualLoss.forward
\* outcome, trace, ret: how the call of accumulate_gradients ended, the events
\*   it produced in program order, and the tuple it returned
\* rg, vg: the result of the call of run_G and of VGGPerceptualLoss.forward
VARIABLES r1_gamma, style_mixing_prob, augment_pipe, resize,
          args, gin, vin, outcome, trace, ret, rg, vg

vars == <<r1_gamma, style_mixing_prob, augment_pipe, resize,
          args, gin, vin, outcome, trace, ret, rg, vg>>

\* ---------------------------------------------------------------- bounds
MaxPix == 1
MaxPose == 1
MaxLat == 1
MaxSeed == 1
NumWs == 3

Pix == 0..MaxPix
Pose == 0..MaxPose
Lat == 0..MaxLat
\* torch.rand([]) in tenths: 0 is below every positive probability, 9 is not below 0.9
RandVals == {0, 9}
\* style_mixing_prob in tenths (the default is 0.9), r1_gamma (the default is 10)
MixProbs == {0, 9}
R1Gammas == {0, 10}

\* ---------------------------------------------------------------- events
Ev(op, arg, arg2, x, y, sync, flag, val) ==
  [op |-> op, arg |-> arg, arg2 |-> arg2, x |-> x, y |-> y,
   sync |-> sync, flag |-> flag, val |-> val]

Tensor(src, v, g) == [src |-> src, v |-> v, rg |-> g]

Abs(n) == IF n < 0 THEN -n ELSE n

\* torch.nn.functional.l1_loss on one-pixel tensors
l1_loss(x, y) == Abs(x - y)

RECURSIVE SumSeq(_)
SumSeq(s) == IF Len(s) = 0 THEN 0 ELSE Head(s) + SumSeq(Tail(s))

\* ---------------------------------------------------------------- run_G
\* a random draw of one run_G call: u = torch.rand, cut = random_(1, n), z2 = randn_like
Draws == [u : RandVals, cut : 1..(NumWs - 1), z2 : Lat]

ANet(A) == [src |-> "ANet", v |-> A]

randn_like(d) == [src |-> "randn", v |-> d.z2]

\* the mapping network: one style per position, all from the same latent and conditioning
G_mapping(z, c) == [i \in 1..NumWs |-> [z |-> z, c |-> c]]

StyleNum(s) == s.z.v + s.c + (IF s.z.src = "randn" THEN 1 ELSE 0)

\* the synthesis network: an image from the styles and the pose
G_synthesis(ws, P) ==
  Tensor("G_synthesis", P + SumSeq([i \in 1..NumWs |-> i * StyleNum(ws[i])]), TRUE)

\* cutoff = random_(1, ws.shape[1]), kept with probability style_mixing_prob, else ws.shape[1]
Cutoff_M(d, prob) == IF d.u < prob THEN d.cut - 1 ELSE NumWs

Cutoff(d, prob) == IF d.u < prob THEN d.cut ELSE NumWs

\* ws[:, cutoff:] = ws2[:, cutoff:]   (position p is index p + 1)
MixStyles(ws, ws2, cutoff) ==
  [i \in 1..NumWs |-> IF i - 1 >= cutoff THEN ws2[i] ELSE ws[i]]

run_G(P, A, c, sync, d, prob) ==
  LET z == ANet(A)
      ws0 == G_mapping(z, c)
      cutoff == Cutoff(d, prob)
      ws == IF prob > 0
            THEN MixStyles(ws0, G_mapping(randn_like(d), c), cutoff)
            ELSE ws0
      img == G_synthesis(ws, P)
  IN [img |-> img, ws |-> ws, ws0 |-> ws0,
      cutoff |-> IF prob > 0 THEN cutoff ELSE NumWs,
      ev |-> <<Ev("ANet", "A", "", A, 0, FALSE, FALSE, z.v),
               Ev("G_mapping", z.src, "", z.v, c, sync, FALSE, 0)>>
             \o (IF prob > 0
                 THEN <<Ev("G_mapping", "randn", "", d.z2, c, sync, TRUE, cutoff)>>
                 ELSE <<>>)
             \o <<Ev("G_synthesis", "ws", "", P, 0, sync, FALSE, img.v)>>]

\* ---------------------------------------------------------------- VGGPerceptualLoss
NumBlocks == 4

\* the argument lists tried for feature_layers and style_layers
LayerLists == {<<>>, <<0, 1, 2, 3>>, <<0>>, <<1, 3>>, <<2, 4>>, <<-1, 3, 3>>}

\* python's "i in list"
In(i, list) == \E k \in 1..Len(list) : list[k] = i

\* (input - mean) / std, channel 0, in integers: mean 0.49, std 0.23
Normalize(v) == (100 * v - 49) \div 23

\* the i-th slice of vgg16.features, ending in a ReLU
Block(i, x) == LET y == (i + 2) * x - (i + 1) IN IF y > 0 THEN y ELSE 0

\* act @ act.permute(0, 2, 1) on a one-element activation
Gram(x) == x * x

FeatureTerm_M(i, x, y, feature_layers) ==
  IF In(i + 1, feature_layers)
  THEN <<[kind |-> "feature", i |-> i, d |-> l1_loss(x, y)]>> ELSE <<>>

FeatureTerm(i, x, y, feature_layers) ==
  IF In(i, feature_layers)
  THEN <<[kind |-> "feature", i |-> i, d |-> l1_loss(x, y)]>> ELSE <<>>

StyleTerm(i, x, y, style_layers) ==
  IF In(i, style_layers)
  THEN <<[kind |-> "gram", i |-> i, d |-> l1_loss(Gram(x), Gram(y))]>> ELSE <<>>

\* x = block(x); y = block(y)
ApplyBlock(i, x, x0) == Block(i, x)

\* the loop over enumerate(self.blocks): st = [x, y, loss, terms, feats]
RECURSIVE VGGLoop(_, _, _, _, _, _)
VGGLoop(i, st, x0, y0, feature_layers, style_layers) ==
  IF i >= NumBlocks THEN st
  ELSE LET x == ApplyBlock(i, st.x, x0)
           y == ApplyBlock(i, st.y, y0)
           ts == FeatureTerm(i, x, y, feature_layers) \o StyleTerm(i, x, y, style_layers)
       IN VGGLoop(i + 1,
                  [x |-> x, y |-> y,
                   loss |-> st.loss + SumSeq([k \in 1..Len(ts) |-> ts[k].d]),
                   terms |-> st.terms \o ts,
                   feats |-> Append(st.feats, <<x, y>>)],
                  x0, y0, feature_layers, style_layers)

\* VGGPerceptualLoss.forward; ch is input.shape[1], size the image side
VGGForward(input, target, ch, size, feature_layers, style_layers) ==
  LET ch1 == IF ch # 3 THEN 3 * ch ELSE ch
      x0 == Normalize(input)
      y0 == Normalize(target)
      size1 == IF resize THEN 224 ELSE size
      st == VGGLoop(0, [x |-> x0, y |-> y0, loss |-> 0, terms |-> <<>>, feats |-> <<>>],
                    x0, y0, feature_layers, style_layers)
  IN [loss |-> st.loss, terms |-> st.terms, feats |-> st.feats,
      ch |-> ch1, size |-> size1, x0 |-> x0, y0 |-> y0]

\* ---------------------------------------------------------------- run_D
\* the augmentation pipeline keeps the tensor's origin and gradient tracking
augment(img) == [img EXCEPT !.v = @ + 1]

\* the discriminator's logits, and their derivative in the image
D(img, c) == img.v * img.v + c - 2

DGrad(img) == 2 * img.v

run_D(img, c, sync) ==
  LET img1 == IF augment_pipe THEN augment(img) ELSE img
      logits == D(img1, c)
  IN [logits |-> logits, grad |-> DGrad(img1),
      ev |-> (IF augment_pipe
              THEN <<Ev("augment_pipe", img.src, "", img.v, 0, FALSE, img.rg, img1.v)>>
              ELSE <<>>)
             \o <<Ev("D", img.src, "", img1.v, c, sync, img.rg, logits)>>]

\* ---------------------------------------------------------------- accumulate_gradients
Phases == {"Gmain", "Greg", "Gboth", "Dmain", "Dreg", "Dboth"}

\* torch.nn.functional.softplus: positive, increasing
softplus(x) == IF x > 0 THEN x + 1 ELSE 1

sign(x) == IF x > 0 THEN 1 ELSE IF x < 0 THEN -1 ELSE 0

\* the k-th random draw of a call whose generator state at entry is seed
DrawAt(seed, k) ==
  LET x == seed + k
  IN [u |-> IF x % 2 = 0 THEN 0 ELSE 9,
      cut |-> 1 + ((x \div 2) % (NumWs - 1)),
      z2 |-> (x \div 4) % (MaxLat + 1)]

record_function(label) == Ev("record_function", label, "", 0, 0, FALSE, FALSE, 0)

report(name, val) == Ev("report", name, "", 0, 0, FALSE, FALSE, val)

\* loss.mean().mul(gain).backward()
backward(expr, val, gain) == Ev("backward", expr, "", 0, 0, FALSE, FALSE, val * gain)

\* assert phase in [...]
PhaseOK_M(phase) == TRUE

PhaseOK(phase) == phase \in Phases

do_Gmain_M(phase) == phase \in {"Gmain", "Greg", "Gboth"}

do_Gmain(phase) == phase \in {"Gmain", "Gboth"}

do_Dmain_M(phase) == phase \in {"Dmain"}

do_Dmain(phase) == phase \in {"Dmain", "Dboth"}

do_Dr1_M(phase, gamma) == phase \in {"Dreg", "Dboth"}

do_Dr1(phase, gamma) == phase \in {"Dreg", "Dboth"} /\ gamma # 0

do_GPercep(phase) == phase \in {"Gmain", "Gboth"}

\* self.vgg_loss(input, target) with the default layer lists
vgg_loss(input, target) ==
  VGGForward(input.v, target.v, 3, 64, <<0, 1, 2, 3>>, <<>>).loss

\* the (input, target) pairs of the two vgg_loss calls of line 122
PercepPairs_M(img_s, img_t, gen_img_s, gen_img_t) ==
  << <<img_s, gen_img_s>>, <<img_t, gen_img_t>> >>

PercepPairs(img_s, img_t, gen_img_s, gen_img_t) ==
  << <<img_s, gen_img_s>>, <<img_s, gen_img_s>> >>

\* a stage that did not run: its losses stay None
Skipped == [ev |-> <<>>, loss_l1 |-> 0, loss_vgg |-> 0, loss |-> 0]

\* lines 123-127: the reports and the backward pass of the perceptual/L1 stage
GPercepResult(a, gev, pp, loss_l1, v1, v2) ==
  [loss_l1 |-> loss_l1, loss_vgg |-> v1 + v2, loss |-> 0,
   ev |-> <<record_function("Gmain_forward")>> \o gev
          \o <<Ev("vgg_loss", pp[1][1].src, pp[1][2].src, pp[1][1].v, pp[1][2].v,
                  FALSE, FALSE, v1),
               Ev("vgg_loss", pp[2][1].src, pp[2][2].src, pp[2][1].v, pp[2][2].v,
                  FALSE, FALSE, v2),
               report("Loss/G/L1_loss", loss_l1),
               report("Loss/G/Perceptual", v1 + v2),
               record_function("Gmain_backward"),
               backward("loss_l1+loss_vgg", loss_l1 + v1 + v2, a.gain)>>]

\* line 122: loss_vgg = self.vgg_loss(..) + self.vgg_loss(..)
GPercepVgg(a, gev, pp, loss_l1) ==
  GPercepResult(a, gev, pp, loss_l1,
                vgg_loss(pp[1][1], pp[1][2]), vgg_loss(pp[2][1], pp[2][2]))

\* lines 119-121: loss_l1 = loss_l1_s + loss_l1_t
GPercepLosses(a, g_s, g_t) ==
  GPercepVgg(a, g_s.ev \o g_t.ev,
             PercepPairs(Tensor("img_s", a.img_s, FALSE), Tensor("img_t", a.img_t, FALSE),
                         g_s.img, g_t.img),
             Abs(l1_loss(a.img_s, g_s.img.v)) + Abs(l1_loss(a.img_t, g_t.img.v)))

\* lines 115-127; k counts the random draws made so far
GPercepStage(a, k) ==
  GPercepLosses(a,
    run_G(a.pose_s, a.ap_s, a.gen_c, a.sync, DrawAt(a.rng, k), style_mixing_prob),
    run_G(a.pose_t, a.ap_s, a.gen_c, a.sync, DrawAt(a.rng, k + 1), style_mixing_prob))

\* lines 136-141
GmainResult(a, ev, gen_logits) ==
  [loss_l1 |-> 0, loss_vgg |-> 0, loss |-> softplus(-gen_logits),
   ev |-> <<record_function("Gmain_forward")>> \o ev
          \o <<report("Loss/scores/fake", gen_logits),
               report("Loss/signs/fake", sign(gen_logits)),
               report("Loss/G/loss", softplus(-gen_logits)),
               record_function("Gmain_backward"),
               backward("loss_Gmain", softplus(-gen_logits), a.gain)>>]

\* line 135: gen_logits = gen_logits_s + gen_logits_t
GmainLogits(a, gev, d_s, d_t) ==
  GmainResult(a, gev \o d_s.ev \o d_t.ev, d_s.logits + d_t.logits)

\* lines 133-134
GmainRunD(a, g_s, g_t) ==
  GmainLogits(a, g_s.ev \o g_t.ev,
              run_D(g_s.img, a.gen_c, FALSE), run_D(g_t.img, a.gen_c, FALSE))

\* the sync flag of the two run_G calls of lines 131-132
GmainSyncG(sync) == sync

\* lines 129-141
GmainStage(a, k) ==
  GmainRunD(a,
    run_G(a.pose_s, a.ap_s, a.gen_c, GmainSyncG(a.sync), DrawAt(a.rng, k),
          style_mixing_prob),
    run_G(a.pose_t, a.ap_s, a.gen_c, GmainSyncG(a.sync), DrawAt(a.rng, k + 1),
          style_mixing_prob))

\* lines 150-154
DgenResult(a, ev, gen_logits) ==
  [loss_l1 |-> 0, loss_vgg |-> 0, loss |-> softplus(gen_logits),
   ev |-> <<record_function("Dgen_forward")>> \o ev
          \o <<report("Loss/scores/fake", gen_logits),
               report("Loss/signs/fake", sign(gen_logits)),
               record_function("Dgen_backward"),
               backward("loss_Dgen", softplus(gen_logits), a.gain)>>]

\* line 149
DgenRunD(a, gev, d_s) == DgenResult(a, gev \o d_s.ev, d_s.logits)

\* the sync flag of the run_G call of line 148
DgenSyncG_M(sync) == sync

DgenSyncG(sync) == FALSE

\* line 148
DgenRunG(a, g_s) == DgenRunD(a, g_s.ev, run_D(g_s.img, a.gen_c, FALSE))

\* lines 145-154
DgenStage(a, k) ==
  DgenRunG(a, run_G(a.pose_s, a.ap_s, a.gen_c, DgenSyncG(a.sync), DrawAt(a.rng, k),
                    style_mixing_prob))

\* lines 159, 185-191: the scope name and the loss that is back-propagated
DrealBackward(a, Dmain, Dr1, loss_Dreal, loss_Dr1) ==
  <<record_function((IF Dmain /\ Dr1 THEN "Dreal_Dr1" ELSE IF Dmain THEN "Dreal" ELSE "Dr1")
                    \o "_backward")>>
  \o (IF Dmain /\ Dr1
      THEN <<backward("loss_Dreal+loss_Dr1", loss_Dreal + loss_Dr1, a.gain)>>
      ELSE IF Dr1
      THEN <<backward("loss_Dr1", loss_Dr1, a.gain)>>
      ELSE <<backward("loss_Dreal", loss_Dreal, a.gain)>>)

\* lines 174-183: r1_grads = r1_grads_t + r1_grads_s, loss_Dr1 = r1_penalty * (r1_gamma / 2)
DrealR1(a, Dmain, Dr1, loss_Dreal, grad_s, grad_t, r1_penalty) ==
  (IF Dr1
   THEN <<Ev("autograd.grad", "img_t", "real_logits", a.img_t, 0, FALSE, Dr1, grad_t),
          Ev("autograd.grad", "img_s", "real_logits", a.img_s, 0, FALSE, Dr1, grad_s),
          report("Loss/r1_penalty", r1_penalty),
          report("Loss/D/reg", (r1_penalty * r1_gamma) \div 2)>>
   ELSE <<>>)
  \o DrealBackward(a, Dmain, Dr1, loss_Dreal,
                   IF Dr1 THEN (r1_penalty * r1_gamma) \div 2 ELSE 0)

\* lines 165-172: real_logits = real_t_logits + real_s_logits, loss_Dreal
DrealResult(a, Dmain, Dr1, loss_Dgen, dev, real_logits, tail) ==
  [loss_l1 |-> 0, loss_vgg |-> 0,
   loss |-> IF Dmain THEN softplus(-real_logits) ELSE 0,
   ev |-> <<record_function((IF Dmain /\ Dr1 THEN "Dreal_Dr1"
                             ELSE IF Dmain THEN "Dreal" ELSE "Dr1") \o "_forward")>>
          \o dev
          \o <<report("Loss/scores/real", real_logits),
               report("Loss/signs/real", sign(real_logits))>>
          \o (IF Dmain
              THEN <<report("Loss/D/loss", loss_Dgen + softplus(-real_logits))>>
              ELSE <<>>)
          \o tail]

\* lines 163-164
DrealRunD(a, Dmain, Dr1, loss_Dgen, d_s, d_t) ==
  DrealResult(a, Dmain, Dr1, loss_Dgen, d_s.ev \o d_t.ev, d_t.logits + d_s.logits,
              DrealR1(a, Dmain, Dr1, softplus(-(d_t.logits + d_s.logits)),
                      d_s.grad, d_t.grad,
                      (d_t.grad + d_s.grad) * (d_t.grad + d_s.grad)))

\* lines 158-191; loss_Dgen is the loss of the Dgen stage
DrealStage(a, Dmain, Dr1, loss_Dgen) ==
  DrealRunD(a, Dmain, Dr1, loss_Dgen,
            run_D(Tensor("img_s", a.img_s, Dr1), a.real_c, a.sync),
            run_D(Tensor("img_t", a.img_t, Dr1), a.real_c, a.sync))

\* line 204: losses that are still None were replaced by zero tensors
ReturnTuple_M(loss_l1, loss_vgg, loss_Dreal, loss_Gmain, loss_Dgen) ==
  <<loss_l1, loss_vgg, loss_Gmain, loss_Dreal, loss_Dgen>>

ReturnTuple(loss_l1, loss_vgg, loss_Dreal, loss_Gmain, loss_Dgen) ==
  <<loss_l1, loss_vgg, loss_Dreal, loss_Gmain, loss_Dgen>>

\* lines 113-204 once the flags are known; the stages run in program order
RunStages(s1, s2, s3, s4) ==
  [outcome |-> "returned",
   trace |-> s1.ev \o s2.ev \o s3.ev \o s4.ev,
   ret |-> ReturnTuple(s1.loss_l1, s1.loss_vgg, s4.loss, s2.loss, s3.loss)]

\* lines 145-191: the two discriminator stages
DStages(a, s1, s2, s3) ==
  RunStages(s1, s2, s3,
            IF do_Dmain(a.phase) \/ do_Dr1(a.phase, r1_gamma)
            THEN DrealStage(a, do_Dmain(a.phase), do_Dr1(a.phase, r1_gamma), s3.loss)
            ELSE Skipped)

\* lines 115-141: the two generator stages; the random draws are numbered in program order
GStages(a, kG, kD) ==
  DStages(a,
          IF do_GPercep(a.phase) THEN GPercepStage(a, 0) ELSE Skipped,
          IF do_Gmain(a.phase) THEN GmainStage(a, kG) ELSE Skipped,
          IF do_Dmain(a.phase) THEN DgenStage(a, kD) ELSE Skipped)

\* StyleGAN2Loss.accumulate_gradients
accumulate_gradients(a) ==
  IF ~PhaseOK(a.phase)
  THEN [outcome |-> "AssertionError", trace |-> <<>>, ret |-> <<0, 0, 0, 0, 0>>]
  ELSE GStages(a,
               IF do_GPercep(a.phase) THEN 2 ELSE 0,
               (IF do_GPercep(a.phase) THEN 2 ELSE 0) + (IF do_Gmain(a.phase) THEN 2 ELSE 0))

\* a call of StyleGAN2Loss.accumulate_gradients on the arguments args
AccumulateGradients ==
  /\ LET r == accumulate_gradients(args)
     IN /\ outcome' = r.outcome
        /\ trace' = r.trace
        /\ ret' = r.ret
  /\ UNCHANGED <<r1_gamma, style_mixing_prob, augment_pipe, resize,
                 args, gin, vin, rg, vg>>

\* what Loss.accumulate_gradients does with any arguments
LossOutcome_M(a) == [outcome |-> "returned", trace |-> <<>>, ret |-> <<0, 0, 0, 0, 0>>]

LossOutcome(a) == [outcome |-> "NotImplementedError", trace |-> <<>>, ret |-> <<0, 0, 0, 0, 0>>]

\* a call of accumulate_gradients on an object whose class does not override it
BaseAccumulateGradients ==
  /\ LET r == LossOutcome(args)
     IN /\ outcome' = r.outcome
        /\ trace' = r.trace
        /\ ret' = r.ret
  /\ UNCHANGED <<r1_gamma, style_mixing_prob, augment_pipe, resize,
                 args, gin, vin, rg, vg>>

\* a direct call of VGGPerceptualLoss.forward on the arguments vin
VGGCall ==
  /\ vg' = [called |-> TRUE]
           @@ VGGForward(vin.input, vin.target, vin.ch, vin.size,
                         vin.feature_layers, vin.style_layers)
  /\ UNCHANGED <<r1_gamma, style_mixing_prob, augment_pipe, resize,
                 args, gin, vin, outcome, trace, ret, rg>>

\* a direct call of StyleGAN2Loss.run_G on the arguments and random draw gin
RunGCall ==
  /\ rg' = [called |-> TRUE]
           @@ run_G(gin.P, gin.A, gin.c, gin.sync, gin.d, style_mixing_prob)
  /\ UNCHANGED <<r1_gamma, style_mixing_prob, augment_pipe, resize,
                 args, gin, vin, outcome, trace, ret, vg>>

\* ---------------------------------------------------------------- specifications
NoArgs == [phase |-> "Gmain", img_s |-> 0, img_t |-> 0, ap_s |-> 0,
           pose_s |-> 0, pose_t |-> 0, gen_c |-> 0, real_c |-> 0,
           sync |-> FALSE, gain |-> 1, rng |-> 0]

NoGin == [P |-> 0, A |-> 0, c |-> 0, sync |-> FALSE, d |-> [u |-> 0, cut |-> 1, z2 |-> 0]]

NoVin == [input |-> 0, target |-> 0, ch |-> 3, size |-> 224,
          feature_layers |-> <<>>, style_layers |-> <<>>]

NotCalled == [called |-> FALSE]

InitResults ==
  /\ outcome = "none"
  /\ trace = <<>>
  /\ ret = <<0, 0, 0, 0, 0>>
  /\ rg = NotCalled
  /\ vg = NotCalled

InitRunG ==
  /\ r1_gamma = 10 /\ augment_pipe = FALSE /\ resize = TRUE
  /\ style_mixing_prob \in MixProbs
  /\ gin \in [P : Pose, A : Lat, c : 0..1, sync : BOOLEAN, d : Draws]
  /\ args = NoArgs /\ vin = NoVin
  /\ InitResults

NextRunG == RunGCall

SpecRunG == InitRunG /\ [][NextRunG]_vars

InitVGG ==
  /\ r1_gamma = 10 /\ augment_pipe = FALSE /\ style_mixing_prob = 9
  /\ resize \in BOOLEAN
  /\ vin \in [input : 0..(MaxPix + 1), target : 0..(MaxPix + 1), ch : {1, 3},
              size : {64, 224}, feature_layers : LayerLists, style_layers : LayerLists]
  /\ args = NoArgs /\ gin = NoGin
  /\ InitResults

NextVGG == VGGCall

SpecVGG == InitVGG /\ [][NextVGG]_vars

\* the six accepted phase names and one that is not accepted
PhaseArgs == Phases \cup {"Gpl"}

Gains == {2}

Init ==
  /\ r1_gamma \in R1Gammas
  /\ style_mixing_prob \in MixProbs
  /\ augment_pipe \in BOOLEAN
  /\ resize = TRUE
  /\ args \in [phase : PhaseArgs, img_s : Pix, img_t : Pix, ap_s : 0..1,
               pose_s : Pose, pose_t : Pose, gen_c : {1}, real_c : {0},
               sync : BOOLEAN, gain : Gains, rng : 0..MaxSeed]
  /\ gin = NoGin /\ vin = NoVin
  /\ InitResults

Next == AccumulateGradients \/ BaseAccumulateGradients

Spec == Init /\ [][Next]_vars

\* ---------------------------------------------------------------- properties
Six == {"Gmain", "Greg", "Gboth", "Dmain", "Dreg", "Dboth"}

NetOps == {"ANet", "G_mapping", "G_synthesis", "augment_pipe", "D", "vgg_loss",
           "autograd.grad"}

FwdLabels == {"Gmain_forward", "Dgen_forward", "Dreal_forward", "Dr1_forward",
              "Dreal_Dr1_forward"}

EvIdx(op) == {i \in 1..Len(trace) : trace[i].op = op}

Quiet(tr) == \A i \in 1..Len(tr) : tr[i].op \notin NetOps \cup {"report", "backward"}

\* C1: a call of accumulate_gradients on the base class Loss raises
\* NotImplementedError whatever the arguments are, and calls no network, reports
\* no statistic and runs no backward pass
Thm_C1 ==
  [][BaseAccumulateGradients =>
       outcome' = "NotImplementedError" /\ Quiet(trace')]_vars

Wit_C1 == outcome = "NotImplementedError" /\ args.phase = "Dboth" /\ args.sync

\* C2: StyleGAN2Loss.accumulate_gradients returns for exactly the six phase names;
\* for any other phase the assertion fails and there is no network call, no
\* report and no backward pass
Thm_C2 ==
  [][AccumulateGradients =>
       /\ (args.phase \in Six => outcome' = "returned")
       /\ (args.phase \notin Six =>
             outcome' = "AssertionError" /\ Quiet(trace') /\ trace' = <<>>)]_vars

Wit_C2 == outcome = "AssertionError" /\ args.phase = "Gpl"

\* a forward stage (a *_forward scope with a network call in it) followed by a backward pass
HasFwdBwd(tr) ==
  \E i, m, j \in 1..Len(tr) :
    /\ i < m /\ m < j
    /\ tr[i].op = "record_function" /\ tr[i].arg \in FwdLabels
    /\ tr[m].op \in NetOps
    /\ tr[j].op = "backward"

\* C3 as stated: for each of the six phases and every r1_gamma a call runs a
\* forward stage followed by a backward pass
Orig_C3 == (outcome = "returned" /\ args.phase \in Six) => HasFwdBwd(trace)

\* C3 amended: a call runs a forward stage followed by a backward pass in phases
\* Gmain, Gboth, Dmain, Dboth for every r1_gamma and in phase Dreg when r1_gamma
\* is not 0; in phase Greg, and in phase Dreg when r1_gamma is 0, it runs no stage
Thm_C3 ==
  outcome = "returned" =>
    /\ (args.phase \in {"Gmain", "Gboth", "Dmain", "Dboth"} => HasFwdBwd(trace))
    /\ (args.phase = "Dreg" /\ r1_gamma # 0 => HasFwdBwd(trace))
    /\ (args.phase = "Greg" => trace = <<>>)
    /\ (args.phase = "Dreg" /\ r1_gamma = 0 => trace = <<>>)

Wit_C3 == outcome = "returned" /\ args.phase = "Dboth" /\ r1_gamma = 0 /\ HasFwdBwd(trace)

\* the stage symbol of the i-th event: F1/B1 perceptual and L1 generator stage,
\* F2/B2 adversarial generator stage, F3/B3 discriminator on generated images,
\* F4/B4 discriminator on real images; "" for an event inside a stage
NextBwd(i) ==
  LET js == {j \in i..Len(trace) : trace[j].op = "backward"}
  IN IF js = {} THEN Len(trace) ELSE CHOOSE j \in js : \A k \in js : j <= k

StageSym(i) ==
  LET e == trace[i]
  IN IF e.op = "backward"
     THEN (IF e.arg = "loss_l1+loss_vgg" THEN "B1"
           ELSE IF e.arg = "loss_Gmain" THEN "B2"
           ELSE IF e.arg = "loss_Dgen" THEN "B3"
           ELSE "B4")
     ELSE IF e.op = "record_function" /\ e.arg \in FwdLabels
     THEN (IF e.arg = "Dgen_forward" THEN "F3"
           ELSE IF e.arg # "Gmain_forward" THEN "F4"
           ELSE IF \E m \in i..NextBwd(i) : trace[m].op = "vgg_loss" THEN "F1"
           ELSE "F2")
     ELSE ""

StageTrace ==
  SelectSeq([i \in 1..Len(trace) |-> StageSym(i)], LAMBDA x : x # "")

R1Applies == args.phase \in {"Dreg", "Dboth"} /\ r1_gamma # 0

\* C4: the stages of a call run in the order perceptual/L1 generator, adversarial
\* generator, discriminator on generated, discriminator on real, each forward
\* directly followed by its own backward; the generator stages run exactly in
\* Gmain/Gboth, the discriminator-on-generated stage exactly in Dmain/Dboth, the
\* discriminator-on-real stage exactly in Dmain/Dboth or when R1 applies
Thm_C4 ==
  outcome = "returned" =>
    StageTrace =
      (IF args.phase \in {"Gmain", "Gboth"} THEN <<"F1", "B1", "F2", "B2">> ELSE <<>>)
      \o (IF args.phase \in {"Dmain", "Dboth"} THEN <<"F3", "B3">> ELSE <<>>)
      \o (IF args.phase \in {"Dmain", "Dboth"} \/ R1Applies THEN <<"F4", "B4">> ELSE <<>>)

Wit_C4 ==
  /\ outcome = "returned" /\ args.phase = "Dboth" /\ r1_gamma # 0
  /\ StageTrace = <<"F3", "B3", "F4", "B4">>

\* C5: the generator runs with the caller's sync flag in Gmain/Gboth and
\* unsynchronized in Dmain/Dboth; the discriminator runs unsynchronized on every
\* generated image and with the caller's sync flag on every real image; in
\* Dmain/Dboth every discriminator call on a generated image is followed by one
\* on a real image with the caller's sync flag
Thm_C5 ==
  outcome = "returned" =>
    /\ \A i \in EvIdx("G_mapping") \cup EvIdx("G_synthesis") :
         /\ (args.phase \in {"Gmain", "Gboth"} => trace[i].sync = args.sync)
         /\ (args.phase \in {"Dmain", "Dboth"} => trace[i].sync = FALSE)
    /\ \A i \in EvIdx("D") :
         /\ (trace[i].arg = "G_synthesis" => trace[i].sync = FALSE)
         /\ (trace[i].arg \in {"img_s", "img_t"} => trace[i].sync = args.sync)
         /\ trace[i].arg \in {"G_synthesis", "img_s", "img_t"}
    /\ (args.phase \in {"Dmain", "Dboth"} =>
          \A i \in EvIdx("D") :
            trace[i].arg = "G_synthesis" =>
              \E j \in EvIdx("D") :
                j > i /\ trace[j].arg \in {"img_s", "img_t"} /\ trace[j].sync = args.sync)

Wit_C5 ==
  /\ outcome = "returned" /\ args.phase = "Dmain" /\ args.sync
  /\ \E i, j \in EvIdx("D") :
       /\ i < j /\ trace[i].arg = "G_synthesis" /\ ~trace[i].sync
       /\ trace[j].arg = "img_t" /\ trace[j].sync
  /\ \E i \in EvIdx("G_synthesis") : ~trace[i].sync

\* C6: R1 is applied exactly when phase is Dreg or Dboth and r1_gamma is not 0;
\* its penalty comes only from the gradients of the logits on the real images
\* img_s and img_t, which track gradients exactly when R1 applies; with r1_gamma
\* 0, Dreg does nothing and Dboth does what Dmain does
Thm_C6 ==
  outcome = "returned" =>
    /\ (EvIdx("autograd.grad") # {}) = R1Applies
    /\ (\E i \in EvIdx("report") : trace[i].arg \in {"Loss/r1_penalty", "Loss/D/reg"})
         = R1Applies
    /\ \A i \in EvIdx("autograd.grad") :
         trace[i].arg \in {"img_s", "img_t"} /\ trace[i].arg2 = "real_logits" /\ trace[i].flag
    /\ \A i \in EvIdx("D") :
         /\ (trace[i].arg \in {"img_s", "img_t"} => trace[i].flag = R1Applies)
    /\ (R1Applies =>
          \E i, j \in EvIdx("autograd.grad"), k \in EvIdx("report") :
            /\ i < j /\ trace[i].arg = "img_t" /\ trace[j].arg = "img_s"
            /\ Cardinality(EvIdx("autograd.grad")) = 2
            /\ trace[k].arg = "Loss/r1_penalty"
            /\ trace[k].val = (trace[i].val + trace[j].val) * (trace[i].val + trace[j].val))
    /\ (r1_gamma = 0 /\ args.phase = "Dreg" => trace = <<>>)
    /\ (r1_gamma = 0 /\ args.phase = "Dboth" =>
          trace = accumulate_gradients([args EXCEPT !.phase = "Dmain"]).trace)

Wit_C6 ==
  /\ outcome = "returned" /\ args.phase = "Dreg" /\ r1_gamma # 0
  /\ \E i \in EvIdx("autograd.grad") : trace[i].val # 0

ReportVal(name) ==
  LET is == {i \in EvIdx("report") : trace[i].arg = name}
  IN IF is = {} THEN 0 ELSE trace[CHOOSE i \in is : TRUE].val

BackwardVal(expr) ==
  LET is == {i \in EvIdx("backward") : trace[i].arg = expr}
  IN IF is = {} THEN 0 ELSE trace[CHOOSE i \in is : TRUE].val

\* C7: the call returns (L1, perceptual, discriminator-real, generator
\* adversarial, discriminator-generated); the components of stages that did not
\* run are zero: the two discriminator ones in Gmain/Gboth, the three generator
\* ones in Dmain/Dboth, all five in Dreg and Greg
Thm_C7 ==
  outcome = "returned" =>
    /\ Len(ret) = 5
    /\ (args.phase \in {"Gmain", "Gboth"} =>
          /\ ret[3] = 0 /\ ret[5] = 0
          /\ ret[1] = ReportVal("Loss/G/L1_loss")
          /\ ret[2] = ReportVal("Loss/G/Perceptual")
          /\ ret[4] = ReportVal("Loss/G/loss") /\ ret[4] > 0)
    /\ (args.phase \in {"Dmain", "Dboth"} =>
          /\ ret[1] = 0 /\ ret[2] = 0 /\ ret[4] = 0
          /\ ret[5] * args.gain = BackwardVal("loss_Dgen") /\ ret[5] > 0
          /\ ret[3] + ret[5] = ReportVal("Loss/D/loss") /\ ret[3] > 0)
    /\ (args.phase \in {"Dreg", "Greg"} => ret = <<0, 0, 0, 0, 0>>)

Wit_C7 ==
  /\ outcome = "returned" /\ args.phase = "Dreg" /\ r1_gamma # 0
  /\ ReportVal("Loss/D/reg") > 0 /\ ret = <<0, 0, 0, 0, 0>>

MappingCalls == {i \in 1..Len(rg.ev) : rg.ev[i].op = "G_mapping"}

\* C8: in run_G with style_mixing_prob > 0 the cutoff is in 1..n-1 or is n; the
\* positions below the cutoff, position 0 among them, keep the styles of the
\* first latent, and exactly the positions from the cutoff on get the styles of a
\* second, random latent mapped with the same conditioning and
\* skip_w_avg_update=True; with style_mixing_prob <= 0 the mapping network is
\* called once and no position is replaced
Thm_C8 ==
  rg.called =>
    LET first == [z |-> [src |-> "ANet", v |-> gin.A], c |-> gin.c]
        second == [z |-> [src |-> "randn", v |-> gin.d.z2], c |-> gin.c]
    IN /\ Len(rg.ws) = NumWs
       /\ (style_mixing_prob > 0 =>
             /\ rg.cutoff \in 1..NumWs
             /\ (rg.cutoff < NumWs) = (gin.d.u < style_mixing_prob)
             /\ \A i \in 1..NumWs :
                  rg.ws[i] = IF i - 1 >= rg.cutoff THEN second ELSE first
             /\ rg.ws[1] = first
             /\ Cardinality(MappingCalls) = 2
             /\ \E i, j \in MappingCalls :
                  /\ i < j
                  /\ rg.ev[i].arg = "ANet" /\ ~rg.ev[i].flag /\ rg.ev[i].y = gin.c
                  /\ rg.ev[j].arg = "randn" /\ rg.ev[j].flag /\ rg.ev[j].y = gin.c)
       /\ (style_mixing_prob <= 0 =>
             /\ Cardinality(MappingCalls) = 1
             /\ \A i \in 1..NumWs : rg.ws[i] = first)

Wit_C8 ==
  /\ rg.called /\ style_mixing_prob > 0 /\ rg.cutoff = NumWs - 1
  /\ rg.ws[NumWs].z.src = "randn" /\ rg.ws[NumWs - 1].z.src = "ANet"

RECURSIVE Feat(_, _)
Feat(i, v) == IF i = 0 THEN Block(0, Normalize(v)) ELSE Block(i, Feat(i - 1, v))

Range(list) == {list[k] : k \in 1..Len(list)}

TermsOf(kind, i) == {k \in 1..Len(vg.terms) : vg.terms[k].kind = kind /\ vg.terms[k].i = i}

\* C9: VGGPerceptualLoss.forward feeds block i the output of block i-1 for both
\* images, and returns the sum of one feature distance for every i in 0..3 that
\* is in feature_layers and one Gram distance for every i in 0..3 that is in
\* style_layers; other indices add nothing; both lists empty give 0
Thm_C9 ==
  vg.called =>
    LET fl == Range(vin.feature_layers)
        sl == Range(vin.style_layers)
        fd(i) == Abs(Feat(i, vin.input) - Feat(i, vin.target))
        gd(i) == Abs(Feat(i, vin.input) * Feat(i, vin.input)
                     - Feat(i, vin.target) * Feat(i, vin.target))
    IN /\ Len(vg.feats) = 4
       /\ \A i \in 0..3 :
            /\ vg.feats[i + 1] = <<Feat(i, vin.input), Feat(i, vin.target)>>
            /\ Cardinality(TermsOf("feature", i)) = (IF i \in fl THEN 1 ELSE 0)
            /\ Cardinality(TermsOf("gram", i)) = (IF i \in sl THEN 1 ELSE 0)
            /\ \A k \in TermsOf("feature", i) : vg.terms[k].d = fd(i)
            /\ \A k \in TermsOf("gram", i) : vg.terms[k].d = gd(i)
       /\ \A k \in 1..Len(vg.terms) : vg.terms[k].i \in 0..3
       /\ vg.loss = SumSeq([k \in 1..4 |->
                              (IF (k - 1) \in fl THEN fd(k - 1) ELSE 0)
                              + (IF (k - 1) \in sl THEN gd(k - 1) ELSE 0)])
       /\ (vin.feature_layers = <<>> /\ vin.style_layers = <<>> => vg.loss = 0)

Wit_C9 ==
  /\ vg.called /\ vin.feature_layers = <<-1, 3, 3>> /\ vin.style_layers = <<2, 4>>
  /\ Len(vg.terms) = 2 /\ vg.terms[1].kind = "gram" /\ vg.terms[1].d > 0
  /\ vg.terms[2].kind = "feature" /\ vg.terms[2].d > 0

GenImg(k) ==
  LET is == EvIdx("G_synthesis")
      ordered == SelectSeq([i \in 1..Len(trace) |-> i], LAMBDA i : i \in is)
  IN trace[ordered[k]]

\* C10: in Gmain/Gboth the perceptual loss reported, back-propagated and returned
\* is vgg_loss(img_s, image generated for pose_s) taken twice; the L1 loss sums a
\* source and a target term; the perceptual loss is the same for every img_t and
\* every pose_t
Thm_C10 ==
  (outcome = "returned" /\ args.phase \in {"Gmain", "Gboth"}) =>
    LET gs == GenImg(1)
        gt == GenImg(2)
        vs == EvIdx("vgg_loss")
    IN /\ gs.x = args.pose_s /\ gt.x = args.pose_t
       /\ Cardinality(vs) = 2
       /\ \A i \in vs :
            /\ trace[i].arg = "img_s" /\ trace[i].x = args.img_s
            /\ trace[i].arg2 = "G_synthesis" /\ trace[i].y = gs.val
            /\ 2 * trace[i].val = ret[2]
       /\ ret[2] = ReportVal("Loss/G/Perceptual")
       /\ ret[1] = Abs(args.img_s - gs.val) + Abs(args.img_t - gt.val)
       /\ BackwardVal("loss_l1+loss_vgg") = (ret[1] + ret[2]) * args.gain
       /\ \A t \in Pix, p \in Pose :
            accumulate_gradients([args EXCEPT !.img_t = t, !.pose_t = p]).ret[2] = ret[2]

Wit_C10 ==
  /\ outcome = "returned" /\ args.phase = "Gboth" /\ ret[2] > 0
  /\ args.img_t # args.img_s /\ args.pose_t # args.pose_s
  /\ accumulate_gradients([args EXCEPT !.img_t = args.img_s]).ret[1] # ret[1]

====
